---- MODULE Spec2Model ----
(***************************************************************************)
(* Texas court PDF scraper: the link extractor, the scrape pipeline        *)
(* (CourtPDFScraper) and the two invocation surfaces that drive it, the    *)
(* serverless handler (api/scrape.py) and the web job (app.py).            *)
(***************************************************************************)
EXTENDS Integers, Sequences, FiniteSets, TLC

\* ------------------------------------------------------------------ bounds
\* Most anchors (<a href>) on a fetched case page.
MaxAnchors == 2
\* Most td/div elements whose string matches /PDF/i on a fetched case page.
MaxElements == 1

\* ------------------------------------------------------- program constants
delay_between_requests == 2
delay_between_downloads == 1

\* --------------------------------------------------------------- requests
\* The URLs a caller submits (after .strip()).
Urls ==
  { "",
    "ftp://search.txcourts.gov/x",
    "https://evil.example.com/x",
    "https://search.txcourts.gov/x?cn=1" }

Methods == {"OPTIONS", "GET", "POST"}

\* urlparse(url).scheme
UrlScheme(url) ==
  CASE url = "ftp://search.txcourts.gov/x" -> "ftp"
    [] url = "https://evil.example.com/x" -> "https"
    [] url = "https://search.txcourts.gov/x?cn=1" -> "https"
    [] OTHER -> ""

\* urlparse(url).hostname
UrlHostname(url) ==
  CASE url = "ftp://search.txcourts.gov/x" -> "search.txcourts.gov"
    [] url = "https://evil.example.com/x" -> "evil.example.com"
    [] url = "https://search.txcourts.gov/x?cn=1" -> "search.txcourts.gov"
    [] OTHER -> ""

allowed_hosts == {"search.txcourts.gov"}

\* ------------------------------------------------------------ case pages
\* An href is kept by its parts: whether it is written as an absolute URL,
\* its host (empty for a relative target), whether it contains the literal
\* SearchMedia.aspx, whether it contains the literal MediaVersionID, and the
\* document it names.
Hrefs ==
  { [abs |-> FALSE, host |-> "", sm |-> TRUE, mv |-> TRUE, doc |-> 1],
    [abs |-> TRUE, host |-> "search.txcourts.gov", sm |-> TRUE, mv |-> TRUE, doc |-> 1],
    [abs |-> TRUE, host |-> "search.txcourts.gov", sm |-> TRUE, mv |-> TRUE, doc |-> 2],
    [abs |-> FALSE, host |-> "", sm |-> TRUE, mv |-> FALSE, doc |-> 3],
    [abs |-> FALSE, host |-> "", sm |-> FALSE, mv |-> FALSE, doc |-> 4] }

\* The visible texts of anchors.
AnchorTexts == {"PDF/120 KB", "Brief"}

Anchors == [href : Hrefs, text : AnchorTexts]

SeqsUpTo(S, n) == UNION {[1..k -> S] : k \in 0..n}

\* A td/div element whose .string matches /PDF/i: its text, and the position
\* (in the page's anchors) of the first <a href> under its parent, 0 when the
\* parent holds none.
ElementsOf(anchors) ==
  SeqsUpTo([text : {"PDF"}, first_link : 0..Len(anchors)], MaxElements)

PagesOver(kinds) ==
  UNION { {[anchors |-> as, elements |-> es] : es \in ElementsOf(as)} :
          as \in SeqsUpTo(kinds, MaxAnchors) }

\* The markup find_pdf_links is checked on.
Pages == PagesOver(Anchors)

\* The anchors of the pages the site serves to a run of the pipeline: a
\* relative document link with a size, and a link to something else.
ServedAnchors ==
  { [href |-> [abs |-> FALSE, host |-> "", sm |-> TRUE, mv |-> TRUE, doc |-> 1],
     text |-> "PDF/120 KB"],
    [href |-> [abs |-> FALSE, host |-> "", sm |-> FALSE, mv |-> FALSE, doc |-> 4],
     text |-> "Brief"] }

ServedPages == PagesOver(ServedAnchors)

\* ---------------------------------------------------------- find_pdf_links
\* urljoin(base_url, href): an absolute href is kept, a relative one takes
\* the host of the page.
urljoin(base_url, href) ==
  IF href.abs THEN href
  ELSE [href EXCEPT !.abs = TRUE, !.host = UrlHostname(base_url)]

\* re.search(r'PDF/(\d+)\s*KB', text): group(1), or 'unknown'.
SizeOf(text) == IF text = "PDF/120 KB" THEN "120" ELSE "unknown"

\* Mutant: the position in the file name is not taken from the list.
PrimaryFilenameFixed(pdf_links, size) ==
  [stem |-> "document_1_" \o size \o "KB", suffix |-> ".pdf"]

\* f"document_{len(pdf_links)+1}_{size}KB.pdf", as pathlib splits it.
PrimaryFilename(pdf_links, size) ==
  [stem |-> "document_" \o ToString(Len(pdf_links) + 1) \o "_" \o size \o "KB",
   suffix |-> ".pdf"]

\* f"document_{len(pdf_links)+1}.pdf"
SecondaryFilename(pdf_links) ==
  [stem |-> "document_" \o ToString(Len(pdf_links) + 1), suffix |-> ".pdf"]

Name(filename) == filename.stem \o filename.suffix

\* Pattern 1: 'SearchMedia.aspx' in href and 'MediaVersionID' in href
PrimaryMatch(href) == href.sm /\ href.mv

RECURSIVE PrimaryPass(_, _, _, _)
PrimaryPass(anchors, k, base_url, pdf_links) ==
  IF k > Len(anchors) THEN pdf_links
  ELSE LET link == anchors[k]
           size == SizeOf(link.text)
           pdf_info == [url |-> urljoin(base_url, link.href),
                        text |-> link.text,
                        size_kb |-> size,
                        filename |-> PrimaryFilename(pdf_links, size)]
       IN PrimaryPass(anchors, k + 1, base_url,
                      IF PrimaryMatch(link.href)
                      THEN Append(pdf_links, pdf_info) ELSE pdf_links)

\* href not in [p['url'] for p in pdf_links]: the raw href is compared with
\* the resolved URLs collected so far.
NotCollected(href, pdf_links) ==
  \A j \in 1..Len(pdf_links) : pdf_links[j].url # href

RECURSIVE SecondaryPass(_, _, _, _)
SecondaryPass(soup, k, base_url, pdf_links) ==
  IF k > Len(soup.elements) THEN pdf_links
  ELSE LET element == soup.elements[k]
           found == element.first_link # 0
                    /\ soup.anchors[element.first_link].href.sm
                    /\ NotCollected(soup.anchors[element.first_link].href, pdf_links)
           pdf_info == [url |-> urljoin(base_url, soup.anchors[element.first_link].href),
                        text |-> element.text,
                        size_kb |-> "unknown",
                        filename |-> SecondaryFilename(pdf_links)]
       IN SecondaryPass(soup, k + 1, base_url,
                        IF found THEN Append(pdf_links, pdf_info) ELSE pdf_links)

find_pdf_links(soup, base_url) ==
  SecondaryPass(soup, 1, base_url, PrimaryPass(soup.anchors, 1, base_url, <<>>))

\* ----------------------------------------------------------- pdf_to_text
\* The documents the court site serves, each as the text of its pages.
Payloads == {<<"Alpha">>, <<"Beta">>}

\* text_content: every page's text followed by "\n".
RECURSIVE TextContent(_)
TextContent(pages) ==
  IF pages = <<>> THEN <<>>
  ELSE <<Head(pages), "\n">> \o TextContent(Tail(pages))

IsBlank(piece) == piece \in {"", "\n"}

RECURSIVE LStrip(_)
LStrip(pieces) ==
  IF pieces # <<>> /\ IsBlank(Head(pieces)) THEN LStrip(Tail(pieces)) ELSE pieces

RECURSIVE RStrip(_)
RStrip(pieces) ==
  IF pieces # <<>> /\ IsBlank(pieces[Len(pieces)])
  THEN RStrip(SubSeq(pieces, 1, Len(pieces) - 1)) ELSE pieces

RECURSIVE Concat(_)
Concat(pieces) ==
  IF pieces = <<>> THEN "" ELSE Head(pieces) \o Concat(Tail(pieces))

\* ''.join(text_content).strip(); the page texts carry no outer whitespace.
FullText(pages) == Concat(RStrip(LStrip(TextContent(pages))))

\* f"<document id={doc_id}>\n{full_text}\n</document>"
Wrapper(doc_id, full_text) ==
  "<document id=" \o ToString(doc_id) \o ">\n" \o full_text \o "\n</document>"

\* Mutant: the wrappers joined by one newline.
RECURSIVE JoinMergedNewline(_)
JoinMergedNewline(content) ==
  IF content = <<>> THEN ""
  ELSE IF Len(content) = 1 THEN content[1]
  ELSE content[1] \o "\n" \o JoinMergedNewline(Tail(content))

\* '\n\n'.join(self.merged_content)
RECURSIVE JoinMerged(_)
JoinMerged(content) ==
  IF content = <<>> THEN ""
  ELSE IF Len(content) = 1 THEN content[1]
  ELSE content[1] \o "\n\n" \o JoinMerged(Tail(content))

\* ------------------------------------------------------------------ paths
\* self.pdf_dir / pdf_info['filename']
PdfPath(pdf_info) ==
  [parent |-> "pdfs", stem |-> pdf_info.filename.stem,
   suffix |-> pdf_info.filename.suffix]

\* self.txt_dir / (pdf_path.stem + '.txt')
TxtPath(path) == [parent |-> "txt_files", stem |-> path.stem, suffix |-> ".txt"]

\* self.output_dir / "merged_documents.txt"
MergedPath == [parent |-> "", stem |-> "merged_documents", suffix |-> ".txt"]

\* ------------------------------------------------------------------ state
VARIABLES
  surface,         \* "handler" (api/scrape.py) or "web" (app.py)
  request,         \* [method, url, merge_texts]
  pc,              \* position of the invocation
  response,        \* what the surface answered to the request
  status_response, \* <<>>, or <<answer>> of the latest GET /status/<job_id>
  temp_dir,        \* the run's temporary directory: "none", "exists", "removed"
  job,             \* WebScrapingJob fields
  soup,            \* <<>> for None, <<page>> for the parsed page
  pdf_links,       \* the references find_pdf_links returned
  i,               \* enumerate(pdf_links, 1): position of the current reference
  pdf_path,        \* <<>> for None, <<path>> returned by download_pdf
  payload,         \* pages of the payload just saved
  results,         \* [pdfs, txt_files, merged_file]
  merged_content,  \* self.merged_content
  fs,              \* files under output_dir: [pdfs, txts, merged]
  log              \* session.get, time.sleep, PdfReader and merged-file writes, in order

vars == <<surface, request, pc, response, status_response, temp_dir, job, soup,
          pdf_links, i, pdf_path, payload, results, merged_content, fs, log>>

scraper_vars == <<soup, pdf_links, i, pdf_path, payload, results,
                  merged_content, fs, log>>

NoJob == [status |-> "none", progress |-> 0, total_files |-> 0,
          processed_files |-> 0, error |-> ""]

\* str(int(time.time() * 1000)) of the one job, and the ids a status request
\* can name.
TheJobId == "1700000000000"
JobIds == {TheJobId, "0"}

\* WebScrapingJob.__init__
NewJob == [status |-> "starting", progress |-> 0, total_files |-> 0,
           processed_files |-> 0, error |-> ""]

NoResponse == [statusCode |-> 0, body |-> [kind |-> "none"]]

\* results = {'pdfs': [], 'txt_files': []}; merged_file is <<>> while the key
\* is absent.
EmptyResults == [pdfs |-> <<>>, txt_files |-> <<>>, merged_file |-> <<>>]

EmptyFs == [pdfs |-> {}, txts |-> {}, merged |-> <<>>]

Init ==
  /\ surface \in {"handler", "web"}
  /\ request \in [method : Methods, url : Urls, merge_texts : BOOLEAN]
  /\ surface = "web" => request.method = "POST"
  /\ pc = "request"
  /\ response = NoResponse
  /\ status_response = <<>>
  /\ temp_dir = "none"
  /\ job = NoJob
  /\ soup = <<>>
  /\ pdf_links = <<>>
  /\ i = 0
  /\ pdf_path = <<>>
  /\ payload = <<>>
  /\ results = EmptyResults
  /\ merged_content = <<>>
  /\ fs = EmptyFs
  /\ log = <<>>

\* ------------------------------------------------------------- log entries
\* session.get(url, ...) followed by raise_for_status(); ok is FALSE when
\* the call, or anything after it in the same try block, raised.
GetEvent(what, ref, ok) ==
  [op |-> "get", what |-> what, ref |-> ref, ok |-> ok, secs |-> 0, text |-> ""]

\* time.sleep(secs)
SleepEvent(secs) ==
  [op |-> "sleep", what |-> "", ref |-> "", ok |-> TRUE, secs |-> secs, text |-> ""]

\* open(path, 'w') and write of the merged file.
WriteEvent(ref, ok) ==
  [op |-> "write", what |-> "merged", ref |-> ref, ok |-> ok, secs |-> 0, text |-> ""]

\* PyPDF2.PdfReader over the file at ref, with the text it gave.
ExtractEvent(ref, ok, text) ==
  [op |-> "extract", what |-> "doc", ref |-> ref, ok |-> ok, secs |-> 0, text |-> text]

\* ------------------------------------------------------ serverless handler
Respond(code, body) ==
  /\ response' = [statusCode |-> code, body |-> body]
  /\ pc' = "returned"

\* The checks of handler() up to the SSRF guard: which 4xx answer, if any.
HandlerRejection(req) ==
  IF req.method = "OPTIONS" THEN <<200, [text |-> ""]>>
  ELSE IF req.method # "POST" THEN <<405, [error |-> "Method not allowed"]>>
  ELSE IF req.url = "" THEN <<400, [error |-> "URL is required"]>>
  ELSE IF UrlScheme(req.url) \notin {"http", "https"}
    THEN <<400, [error |-> "Invalid URL scheme"]>>
  ELSE IF UrlHostname(req.url) \notin allowed_hosts
    THEN <<400, [error |->
                 "URL not allowed. Only Texas court websites are supported."]>>
  ELSE <<>>

\* handler(request), from its entry to the call of scrape_case_page.
HandlerRequest ==
  /\ surface = "handler"
  /\ pc = "request"
  /\ LET rejection == HandlerRejection(request) IN
       IF rejection # <<>>
       THEN /\ Respond(rejection[1], rejection[2])
            /\ UNCHANGED temp_dir
       ELSE /\ temp_dir' = "exists"
            /\ pc' = "scrape"
            /\ UNCHANGED response
  /\ UNCHANGED <<surface, request, status_response, job, scraper_vars>>

\* ------------------------------------------------------------ web /scrape
\* The checks of scrape() before the job is created.
WebRejection(req) ==
  IF req.url = "" THEN <<400, [error |-> "URL is required"]>> ELSE <<>>

\* scrape(): validate, register the job, start its thread, answer.
WebScrape ==
  /\ surface = "web"
  /\ pc = "request"
  /\ LET rejection == WebRejection(request) IN
       IF rejection # <<>>
       THEN /\ Respond(rejection[1], rejection[2])
            /\ UNCHANGED job
       ELSE /\ job' = NewJob
            /\ response' = [statusCode |-> 200, body |-> [status |-> "started"]]
            /\ pc' = "thread"
  /\ UNCHANGED <<surface, request, status_response, temp_dir, scraper_vars>>

\* WebScrapingJob.run: self.status = "scraping"
JobRunBegin ==
  /\ surface = "web"
  /\ pc = "thread"
  /\ job' = [job EXCEPT !.status = "scraping"]
  /\ pc' = "setup"
  /\ UNCHANGED <<surface, request, status_response, response, temp_dir, scraper_vars>>

\* WebScrapingJob.run: mkdtemp, the scraper, self.status = "downloading"
JobRunSetup ==
  /\ surface = "web"
  /\ pc = "setup"
  /\ temp_dir' = "exists"
  /\ job' = [job EXCEPT !.status = "downloading"]
  /\ pc' = "scrape"
  /\ UNCHANGED <<surface, request, status_response, response, scraper_vars>>

\* ------------------------------------------------------- scrape_case_page
\* What session.get(url) can give for the case page: <<>> for any exception
\* (timeout, non-2xx status, connection error, no adapter for the scheme),
\* <<page>> for a 2xx answer.
PageOutcomes(url) ==
  IF UrlScheme(url) \in {"http", "https"}
  THEN {<<>>} \cup {<<page>> : page \in ServedPages}
  ELSE {<<>>}

\* get_page_content: the request, and the pause after a successful one.
PageLog(url, ok) ==
  <<GetEvent("page", url, ok)>>
    \o (IF ok THEN <<SleepEvent(delay_between_requests)>> ELSE <<>>)

\* Mutant: scrape_case_page goes on to link discovery without its
\* 'if not soup' return.
AfterPageFetchNoCheck(fetched) == "find"

\* if not soup: return results. Where scrape_case_page is after the fetch.
AfterPageFetch(fetched) == IF fetched = <<>> THEN "scraped" ELSE "find"

\* scrape_case_page from its entry through get_page_content: a failed fetch
\* returns the empty results.
GetPageContent ==
  /\ pc = "scrape"
  /\ \E fetched \in PageOutcomes(request.url) :
       /\ log' = log \o PageLog(request.url, fetched # <<>>)
       /\ soup' = fetched
       /\ pc' = AfterPageFetch(fetched)
  /\ UNCHANGED <<surface, request, status_response, response, temp_dir, job, pdf_links, i,
                 pdf_path, payload, results, merged_content, fs>>

\* find_pdf_links and the return on an empty list.
FindPdfLinks ==
  /\ pc = "find"
  /\ pdf_links' = find_pdf_links(soup[1], request.url)
  /\ IF pdf_links' = <<>>
     THEN pc' = "scraped" /\ UNCHANGED i
     ELSE pc' = "download" /\ i' = 1
  /\ UNCHANGED <<surface, request, status_response, response, temp_dir, job, soup, pdf_path,
                 payload, results, merged_content, fs, log>>

\* Mutant: the loop stays on a reference (a retry).
AdvanceRetry(idx) == idx

\* The for loop's step to the following reference.
Advance(idx) == idx + 1

\* Where the loop goes once reference idx is done with: <<pc, i>>.
AfterIteration(idx, links) ==
  IF idx < Len(links) THEN <<"download", Advance(idx)>> ELSE <<"assemble", idx>>

\* Mutant: download_pdf returns the path although the download failed.
DownloadResultAlways(pdf_info, ok) == <<PdfPath(pdf_info)>>

\* download_pdf's return value: the saved path, or None.
DownloadResult(pdf_info, ok) == IF ok THEN <<PdfPath(pdf_info)>> ELSE <<>>

\* Mutant: download_pdf without its time.sleep.
DownloadLogNoPause(pdf_info, ok) ==
  <<GetEvent("doc", Name(pdf_info.filename), ok)>>

\* download_pdf: the request, and the pause after a saved payload.
DownloadLog(pdf_info, ok) ==
  <<GetEvent("doc", Name(pdf_info.filename), ok)>>
    \o (IF ok THEN <<SleepEvent(delay_between_downloads)>> ELSE <<>>)

\* Mutant: the callback reports the download it has just counted as the
\* whole of the work.
DownloadWithProgressCounted(j, result) ==
  IF result # <<>>
  THEN [j EXCEPT !.processed_files = @ + 1, !.progress = 100]
  ELSE j

\* download_with_progress: the web job's wrapper around download_pdf.
DownloadWithProgress(j, result) ==
  IF result # <<>>
  THEN [j EXCEPT !.processed_files = @ + 1,
                 !.progress = IF j.total_files > 0
                              THEN ((j.processed_files + 1) * 100) \div j.total_files
                              ELSE 0]
  ELSE j

\* One iteration's download_pdf(pdf_info) and results['pdfs'].append.
DownloadPdf ==
  /\ pc = "download"
  /\ \E fetched \in {<<>>} \cup {<<pages>> : pages \in Payloads} :
       LET pdf_info == pdf_links[i]
           ok == fetched # <<>>
           result == DownloadResult(pdf_info, ok)
           after == AfterIteration(i, pdf_links)
       IN /\ log' = log \o DownloadLog(pdf_info, ok)
          /\ fs' = IF ok THEN [fs EXCEPT !.pdfs = @ \cup {Name(pdf_info.filename)}]
                   ELSE fs
          /\ payload' = IF ok THEN fetched[1] ELSE payload
          /\ pdf_path' = result
          /\ job' = IF surface = "web" THEN DownloadWithProgress(job, result) ELSE job
          /\ IF result # <<>>
             THEN /\ results' = [results EXCEPT !.pdfs = Append(@, result[1])]
                  /\ pc' = "convert"
                  /\ UNCHANGED i
             ELSE /\ pc' = after[1]
                  /\ i' = after[2]
                  /\ UNCHANGED results
  /\ UNCHANGED <<surface, request, status_response, response, temp_dir, soup, pdf_links,
                 merged_content>>

\* Mutant: documents numbered by the count of downloads that succeeded.
DocIdAfterDownload(idx, res) == Len(res.pdfs)

\* The doc_id scrape_case_page passes to pdf_to_text: enumerate's i.
DocId(idx, res) == idx

\* Mutant: the wrapper is appended although extraction raised.
MergedAfterFailureAppends(content, doc_id) == Append(content, Wrapper(doc_id, ""))

\* What a failed pdf_to_text leaves in self.merged_content.
MergedAfterFailure(content, doc_id) == content

\* One iteration's pdf_to_text(pdf_path, i) and results['txt_files'].append;
\* raised stands for any exception in its try block.
PdfToText ==
  /\ pc = "convert"
  /\ \E raised \in BOOLEAN :
       LET path == pdf_path[1]
           doc_id == DocId(i, results)
           full_text == FullText(payload)
           txt_path == TxtPath(path)
           after == AfterIteration(i, pdf_links)
       IN /\ log' = Append(log, ExtractEvent(path.stem \o path.suffix, ~raised,
                                             IF raised THEN "" ELSE full_text))
          /\ IF raised
             THEN /\ merged_content' = MergedAfterFailure(merged_content, doc_id)
                  /\ UNCHANGED <<results, fs>>
             ELSE IF request.merge_texts
             THEN /\ merged_content' = Append(merged_content, Wrapper(doc_id, full_text))
                  /\ UNCHANGED <<results, fs>>
             ELSE /\ fs' = [fs EXCEPT !.txts =
                              {f \in @ : f.name # txt_path.stem \o txt_path.suffix}
                              \cup {[name |-> txt_path.stem \o txt_path.suffix,
                                     content |-> full_text]}]
                  /\ results' = [results EXCEPT !.txt_files = Append(@, txt_path)]
                  /\ UNCHANGED merged_content
          /\ pc' = after[1]
          /\ i' = after[2]
  /\ UNCHANGED <<surface, request, status_response, response, temp_dir, job, soup, pdf_links,
                 pdf_path, payload>>

\* Mutant: save_merged_file without its check for an empty collection.
SaveMergedResultUnchecked(content, written) ==
  IF ~written THEN <<>> ELSE <<MergedPath>>

\* save_merged_file's return value: None on an empty collection or a failed
\* write, the path otherwise.
SaveMergedResult(content, written) ==
  IF content = <<>> \/ ~written THEN <<>> ELSE <<MergedPath>>

\* The end of scrape_case_page: save_merged_file in merge mode, then return.
SaveMergedFile ==
  /\ pc = "assemble"
  /\ \E written \in BOOLEAN :
       /\ (~request.merge_texts \/ merged_content = <<>>) => written
       /\ LET merged_path ==
                IF request.merge_texts
                THEN SaveMergedResult(merged_content, written) ELSE <<>>
          IN /\ fs' = IF merged_path # <<>>
                      THEN [fs EXCEPT !.merged = <<JoinMerged(merged_content)>>]
                      ELSE fs
             /\ results' = [results EXCEPT !.merged_file = merged_path]
             /\ log' = IF request.merge_texts /\ merged_content # <<>>
                       THEN Append(log, WriteEvent(MergedPath.stem \o MergedPath.suffix,
                                                   written))
                       ELSE log
  /\ pc' = "scraped"
  /\ UNCHANGED <<surface, request, status_response, response, temp_dir, job, soup, pdf_links, i,
                 pdf_path, payload, merged_content>>

\* --------------------------------------------- handler, after the scrape
\* The body handler() answers when len(results['pdfs']) is 0.
NoDocumentsBody ==
  [success |-> FALSE, message |-> "No PDF documents found on the page",
   pdf_count |-> 0]

\* Content of the text file called name.
ReadTxt(files, name) == (CHOOSE f \in files : f.name = name).content

\* documents: one entry per existing text file, numbered from 1.
Documents(txt_files, files) ==
  [k \in 1..Len(txt_files) |->
     [id |-> k,
      filename |-> txt_files[k].stem \o txt_files[k].suffix,
      content |-> ReadTxt(files, txt_files[k].stem \o txt_files[k].suffix)]]

MergedBody(res, files) ==
  [success |-> TRUE, format |-> "merged", pdf_count |-> Len(res.pdfs),
   processed_count |-> Len(res.txt_files), merged_content |-> files.merged[1],
   filename |-> "merged_court_documents.txt"]

SeparateBody(res, files) ==
  [success |-> TRUE, format |-> "separate", pdf_count |-> Len(res.pdfs),
   processed_count |-> Len(res.txt_files),
   documents |-> Documents(res.txt_files, files.txts)]

\* shutil.rmtree(temp_dir)
rmtree(dir) == "removed"

\* handler(request), from the return of scrape_case_page to its own return;
\* raised stands for an exception while a produced file is read back.
HandlerRespond ==
  /\ surface = "handler"
  /\ pc = "scraped"
  /\ LET total_files == Len(results.pdfs)
         merged == request.merge_texts /\ results.merged_file # <<>>
     IN IF total_files = 0
        THEN /\ Respond(200, NoDocumentsBody)
             /\ UNCHANGED temp_dir
        ELSE \E raised \in BOOLEAN :
               /\ raised => merged \/ results.txt_files # <<>>
               /\ temp_dir' = rmtree(temp_dir)
               /\ IF raised
                  THEN Respond(500, [success |-> FALSE, error |-> "str(e)"])
                  ELSE IF merged
                  THEN Respond(200, MergedBody(results, fs))
                  ELSE Respond(200, SeparateBody(results, fs))
  /\ UNCHANGED <<surface, request, status_response, job, scraper_vars>>

\* --------------------------------------------- web job, after the scrape
\* WebScrapingJob.run, from the return of scrape_case_page to its end.
JobRunEnd ==
  /\ surface = "web"
  /\ pc = "scraped"
  /\ LET done == IF request.merge_texts
                 THEN results.merged_file # <<>>
                 ELSE results.txt_files # <<>>
     IN job' = [job EXCEPT
                  !.total_files = Len(results.pdfs),
                  !.status = IF done THEN "completed" ELSE "error",
                  !.error = IF done THEN @
                            ELSE "No documents were successfully processed"]
  /\ pc' = "finished"
  /\ UNCHANGED <<surface, request, status_response, response, temp_dir, scraper_vars>>

\* ----------------------------------------------------- web /status/<job_id>
\* active_jobs, which holds the job from scrape() on.
active_jobs == IF job.status = "none" THEN {} ELSE {TheJobId}

\* The dictionary job_status answers with; error and download are <<>> while
\* their keys are absent.
StatusBody(job_id, j, merge_texts, res) ==
  [job_id |-> job_id,
   status |-> j.status,
   progress |-> j.progress,
   total_files |-> j.total_files,
   processed_files |-> j.processed_files,
   error |-> IF j.error # "" THEN <<j.error>> ELSE <<>>,
   download |-> IF j.status # "completed" THEN <<>>
                ELSE IF merge_texts
                THEN <<[download_type |-> "merged", file_count |-> 1]>>
                ELSE <<[download_type |-> "separate",
                        file_count |-> Len(res.txt_files)]>>]

\* job_status(job_id), at any point of the job's thread.
JobStatus ==
  /\ surface = "web"
  /\ \E job_id \in JobIds :
       status_response' =
         IF job_id \notin active_jobs
         THEN <<[statusCode |-> 404, body |-> [error |-> "Job not found"]]>>
         ELSE <<[statusCode |-> 200,
                 body |-> StatusBody(job_id, job, request.merge_texts, results)]>>
  /\ UNCHANGED <<surface, request, pc, response, temp_dir, job, scraper_vars>>

\* ------------------------------------------------------------ specification
Next ==
  \/ HandlerRequest
  \/ WebScrape
  \/ JobRunBegin
  \/ JobRunSetup
  \/ GetPageContent
  \/ FindPdfLinks
  \/ DownloadPdf
  \/ PdfToText
  \/ SaveMergedFile
  \/ HandlerRespond
  \/ JobRunEnd

Spec == Init /\ [][Next]_vars

\* The link extractor alone: find_pdf_links applied to any page of Pages,
\* fetched by a handler run for the court's host.
InitLinks ==
  /\ surface = "handler"
  /\ request \in [method : {"POST"}, url : {"https://search.txcourts.gov/x?cn=1"},
                  merge_texts : BOOLEAN]
  /\ pc = "find"
  /\ response = NoResponse
  /\ status_response = <<>>
  /\ temp_dir = "exists"
  /\ job = NoJob
  /\ soup \in {<<page>> : page \in Pages}
  /\ pdf_links = <<>>
  /\ i = 0
  /\ pdf_path = <<>>
  /\ payload = <<>>
  /\ results = EmptyResults
  /\ merged_content = <<>>
  /\ fs = EmptyFs
  /\ log = PageLog(request.url, TRUE)

NextLinks == FindPdfLinks

SpecLinks == InitLinks /\ [][NextLinks]_vars

\* The web application: one job's thread, and status requests at any point
\* of it, for a request without url and for one with a case page's url.
InitWeb ==
  /\ Init
  /\ surface = "web"
  /\ request.url \in {"", "https://search.txcourts.gov/x?cn=1"}

NextWeb ==
  \/ WebScrape
  \/ JobRunBegin
  \/ JobRunSetup
  \/ GetPageContent
  \/ FindPdfLinks
  \/ DownloadPdf
  \/ PdfToText
  \/ SaveMergedFile
  \/ JobRunEnd
  \/ JobStatus

SpecWeb == InitWeb /\ [][NextWeb]_vars

\* ------------------------------------------------------------- properties
\* scrape_case_page has returned.
ScrapeReturned ==
  \/ pc \in {"scraped", "finished"}
  \/ pc = "returned" /\ surface = "handler" /\ temp_dir # "none"

IsGet(e) == e.op = "get"
IsDocGet(e) == e.op = "get" /\ e.what = "doc"
IsSavedGet(e) == e.op = "get" /\ e.what = "doc" /\ e.ok
IsExtracted(e) == e.op = "extract" /\ e.ok

\* The requests issued so far, the document requests among them, and the
\* extractions that succeeded, each in the order they happened.
Gets == SelectSeq(log, IsGet)
DocGets == SelectSeq(log, IsDocGet)
SavedGets == SelectSeq(log, IsSavedGet)
Extracted == SelectSeq(log, IsExtracted)

\* The discovery position of the reference whose payload is saved as name.
PositionOf(name) ==
  CHOOSE p \in 1..Len(pdf_links) : Name(pdf_links[p].filename) = name

\* The texts a document can yield.
Texts == {FullText(pages) : pages \in Payloads}

\* C1: in merged mode every wrapper in merged_content carries the discovery
\* position (in the list find_pdf_links returned) of the reference whose
\* payload it was extracted from, whatever downloads or extractions failed
\* before it.
C1_OrdinalIsDiscoveryPosition ==
  request.merge_texts =>
    /\ Len(merged_content) = Len(Extracted)
    /\ \A k \in 1..Len(merged_content) :
         merged_content[k] =
           Wrapper(PositionOf(Extracted[k].ref), Extracted[k].text)

\* A merged run in which a wrapper's ordinal is larger than its place in
\* merged_content: an earlier reference failed and left its ordinal unused.
C1_Witness ==
  /\ request.merge_texts
  /\ \E k \in 1..Len(merged_content) :
       /\ k <= Len(Extracted)
       /\ PositionOf(Extracted[k].ref) > k
       /\ merged_content[k] = Wrapper(PositionOf(Extracted[k].ref), Extracted[k].text)

\* C5: the case page is requested once and first; after it the document
\* requests follow the references in discovery order, one per reference, and
\* once scrape_case_page has returned from a fetched page every reference has
\* had its one attempt.
ExpectedGets ==
  <<[what |-> "page", ref |-> request.url]>>
    \o [p \in 1..Len(pdf_links) |->
          [what |-> "doc", ref |-> Name(pdf_links[p].filename)]]

C5_SinglePass ==
  /\ Len(Gets) <= Len(ExpectedGets)
  /\ \A k \in 1..Len(Gets) :
       Gets[k].what = ExpectedGets[k].what /\ Gets[k].ref = ExpectedGets[k].ref
  /\ (ScrapeReturned \/ pc \in {"find", "download", "convert", "assemble"})
       => Len(Gets) >= 1
  /\ (ScrapeReturned /\ soup # <<>>) => Len(Gets) = Len(ExpectedGets)

\* A finished run over at least two references whose first download failed.
C5_Witness ==
  /\ ScrapeReturned
  /\ Len(pdf_links) >= 2
  /\ Len(Gets) = Len(pdf_links) + 1
  /\ ~Gets[2].ok

\* C6: results['pdfs'] is the saved paths of the references whose download
\* succeeded, in discovery order; a reference whose download failed is in
\* neither results['pdfs'], nor results['txt_files'], nor merged_content.
C6_DownloadedAreTheFetched ==
  /\ Len(results.pdfs) = Len(SavedGets)
  /\ \A k \in 1..Len(results.pdfs) :
       /\ results.pdfs[k].parent = "pdfs"
       /\ results.pdfs[k].stem \o results.pdfs[k].suffix = SavedGets[k].ref
       /\ k > 1 => PositionOf(SavedGets[k - 1].ref) < PositionOf(SavedGets[k].ref)
  /\ \A g \in 1..Len(DocGets) :
       ~DocGets[g].ok =>
         LET p == PositionOf(DocGets[g].ref) IN
           /\ \A k \in 1..Len(results.pdfs) :
                results.pdfs[k].stem # pdf_links[p].filename.stem
           /\ \A k \in 1..Len(results.txt_files) :
                results.txt_files[k].stem # pdf_links[p].filename.stem
           /\ \A k \in 1..Len(merged_content) : \A t \in Texts \cup {""} :
                merged_content[k] # Wrapper(p, t)

\* A finished run in which one download failed and a later one was saved.
C6_Witness ==
  /\ ScrapeReturned
  /\ \E g, h \in 1..Len(DocGets) : g < h /\ ~DocGets[g].ok /\ DocGets[h].ok
  /\ results.pdfs # <<>>

\* C10: every successful request is followed at once by a pause, of
\* delay_between_requests after the page and of delay_between_downloads after
\* a document, so no request follows a successful request directly.
C10_PauseAfterSuccess ==
  \A k \in 1..Len(log) :
    (log[k].op = "get" /\ log[k].ok) =>
      /\ k < Len(log)
      /\ log[k + 1] = SleepEvent(IF log[k].what = "page"
                                 THEN delay_between_requests
                                 ELSE delay_between_downloads)

\* Two documents fetched successfully one after the other in one run.
C10_Witness ==
  \E j, k \in 1..Len(log) :
    /\ j < k
    /\ log[j].op = "get" /\ log[j].what = "doc" /\ log[j].ok
    /\ log[k].op = "get" /\ log[k].what = "doc" /\ log[k].ok

\* C2: find_pdf_links returns no two references with the same resolved URL.
C2_NoDuplicateUrls ==
  \A a, b \in 1..Len(pdf_links) :
    a # b => pdf_links[a].url # pdf_links[b].url

\* A URL the allow-list admits: scheme http/https and host search.txcourts.gov.
UrlAllowed(url) ==
  UrlScheme(url) \in {"http", "https"} /\ UrlHostname(url) = "search.txcourts.gov"

\* C3: on either surface a URL outside the allow-list is rejected before the
\* pipeline runs: no scraper run is started and no request is issued.
C3_DisallowedUrlNeverRuns ==
  ~UrlAllowed(request.url) =>
    /\ log = <<>>
    /\ pc \notin {"scrape", "find", "download", "convert", "assemble",
                  "scraped", "finished"}

PageFetchFailed == log # <<>> /\ ~log[1].ok

AllDocFetchesFailed ==
  DocGets # <<>> /\ \A g \in 1..Len(DocGets) : ~DocGets[g].ok

\* C4: the handler answers a fetched page without document references with
\* {success: false, pdf_count: 0}, and a run whose page fetch failed, or whose
\* every document fetch failed, is not answered with that same response.
C4_ZeroDocumentsDistinctFromFailure ==
  (surface = "handler" /\ pc = "returned" /\ temp_dir # "none") =>
    /\ (soup # <<>> /\ pdf_links = <<>>) =>
         response = [statusCode |-> 200, body |-> NoDocumentsBody]
    /\ (PageFetchFailed \/ AllDocFetchesFailed) =>
         response # [statusCode |-> 200, body |-> NoDocumentsBody]

\* A step of pdf_to_text that raised.
ExtractionFailedStep ==
  /\ pc = "convert"
  /\ Len(log') = Len(log) + 1
  /\ log'[Len(log')].op = "extract"
  /\ ~log'[Len(log')].ok

\* A reference whose extraction raised has no entry in results['txt_files']
\* and no wrapper in merged_content.
FailedExtractionsAbsent ==
  \A k \in 1..Len(log) :
    (log[k].op = "extract" /\ ~log[k].ok) =>
      LET p == PositionOf(log[k].ref) IN
        /\ \A n \in 1..Len(results.txt_files) :
             results.txt_files[n].stem # pdf_links[p].filename.stem
        /\ \A n \in 1..Len(merged_content) : \A t \in Texts \cup {""} :
             merged_content[n] # Wrapper(p, t)

\* C7: an extraction that fails adds nothing to results['txt_files'] nor to
\* merged_content, leaves what the other documents put there as it was, and
\* the loop goes on to the next reference (or to the end of the run after the
\* last one).
C7_FailedExtractionContributesNothing ==
  /\ []FailedExtractionsAbsent
  /\ [][ExtractionFailedStep =>
          /\ results' = results
          /\ merged_content' = merged_content
          /\ IF i < Len(pdf_links)
             THEN pc' = "download" /\ i' = i + 1
             ELSE pc' = "assemble"]_vars

\* An extraction failed and the extraction of a later reference succeeded.
C7_Witness ==
  \E j, k \in 1..Len(log) :
    /\ j < k
    /\ log[j].op = "extract" /\ ~log[j].ok
    /\ log[k].op = "extract" /\ log[k].ok

\* The wrapper the specification asks for an extracted document.
Piece(e) ==
  "<document id=" \o ToString(PositionOf(e.ref)) \o ">\n" \o e.text
    \o "\n</document>"

RECURSIVE BlankLineJoined(_)
BlankLineJoined(es) ==
  IF Len(es) = 1 THEN Piece(es[1])
  ELSE Piece(es[1]) \o "\n\n" \o BlankLineJoined(Tail(es))

\* C8: the merged file holds the wrappers of the extracted documents, in
\* ascending discovery order, with "\n\n" between two wrappers and nothing
\* before the first or after the last; ordinals 1, 2 with texts Alpha, Beta
\* give the string of the specification.
C8_MergedArtifactContent ==
  fs.merged # <<>> =>
    /\ Extracted # <<>>
    /\ \A k \in 2..Len(Extracted) :
         PositionOf(Extracted[k - 1].ref) < PositionOf(Extracted[k].ref)
    /\ fs.merged[1] = BlankLineJoined(Extracted)
    /\ [k \in 1..Len(Extracted) |->
          <<PositionOf(Extracted[k].ref), Extracted[k].text>>]
         = << <<1, "Alpha">>, <<2, "Beta">> >>
       => fs.merged[1] =
            "<document id=1>\nAlpha\n</document>\n\n<document id=2>\nBeta\n</document>"

\* The merged file of a run that extracted Alpha as document 1 and Beta as
\* document 2.
C8_Witness ==
  fs.merged =
    <<"<document id=1>\nAlpha\n</document>\n\n<document id=2>\nBeta\n</document>">>

\* The write of the merged file succeeded.
MergedWritten == \E k \in 1..Len(log) : log[k].op = "write" /\ log[k].ok

\* C9 as claimed: after scrape_case_page returned, in merged mode
\* results['txt_files'] is empty and a merged file (and the merged_file key)
\* exists if and only if at least one document was extracted; in separate
\* mode zero extracted documents leave results['txt_files'] empty.
C9_MergedIffExtracted ==
  ScrapeReturned =>
    /\ request.merge_texts =>
         /\ results.txt_files = <<>>
         /\ (results.merged_file # <<>>) <=> (Extracted # <<>>)
         /\ (fs.merged # <<>>) <=> (Extracted # <<>>)
    /\ (~request.merge_texts /\ Extracted = <<>>) => results.txt_files = <<>>

\* C9 as amended: the merged file (and the merged_file key) exists if and
\* only if at least one document was extracted and the write of the merged
\* file succeeded; the rest as claimed.
C9_MergedIffExtractedAndWritten ==
  ScrapeReturned =>
    /\ request.merge_texts =>
         /\ results.txt_files = <<>>
         /\ (results.merged_file # <<>>) <=> (Extracted # <<>> /\ MergedWritten)
         /\ (fs.merged # <<>>) <=> (Extracted # <<>> /\ MergedWritten)
         /\ Extracted = <<>> => ~(\E k \in 1..Len(log) : log[k].op = "write")
    /\ (~request.merge_texts /\ Extracted = <<>>) => results.txt_files = <<>>

\* A merged run that saved a payload, extracted none, and returned without a
\* merged file.
C9_Witness ==
  /\ ScrapeReturned
  /\ request.merge_texts
  /\ results.pdfs # <<>>
  /\ Extracted = <<>>
  /\ results.merged_file = <<>>
  /\ fs.merged = <<>>

\* C11: after a failed page fetch scrape_case_page has returned its empty
\* results: no link discovery was run, no document was requested, nothing was
\* written under the output directory, and the one request of the run is the
\* failed page request.
C11_PageFailureAbortsRun ==
  PageFetchFailed =>
    /\ ScrapeReturned
    /\ soup = <<>>
    /\ pdf_links = <<>>
    /\ DocGets = <<>>
    /\ log = <<GetEvent("page", request.url, FALSE)>>
    /\ results = EmptyResults
    /\ merged_content = <<>>
    /\ fs = EmptyFs

\* The caller has taken the empty results of a run whose page fetch failed.
C11_Witness ==
  /\ PageFetchFailed
  /\ pc \in {"returned", "finished"}
  /\ UrlScheme(request.url) = "https"

\* The anchors of the page that match the document endpoint pattern, in
\* document order.
IsMatchingAnchor(a) == PrimaryMatch(a.href)
MatchingAnchors == SelectSeq(soup[1].anchors, IsMatchingAnchor)

\* find_pdf_links has been applied to the fetched page.
LinksFound == soup # <<>> /\ pc # "find"

\* C12: when the anchors of the page are N anchors matching the document
\* endpoint pattern, with pairwise distinct resolved targets, find_pdf_links
\* returns N references, the k-th being the k-th matching anchor, whatever
\* td/div elements mention PDF around them.
C12_OneReferencePerAnchor ==
  (/\ LinksFound
   /\ MatchingAnchors = soup[1].anchors
   /\ \A a, b \in 1..Len(MatchingAnchors) :
        a # b => urljoin(request.url, MatchingAnchors[a].href)
                   # urljoin(request.url, MatchingAnchors[b].href))
  => /\ Len(pdf_links) = Len(MatchingAnchors)
     /\ \A k \in 1..Len(pdf_links) :
          /\ pdf_links[k].url = urljoin(request.url, MatchingAnchors[k].href)
          /\ pdf_links[k].text = MatchingAnchors[k].text

\* C13: the file names find_pdf_links gives are pairwise distinct, each
\* carrying its reference's position in the one list both passes append to,
\* so no two references share the path their payload is saved at nor the path
\* their text file is written at.
C13_FilenamesDistinct ==
  /\ \A k \in 1..Len(pdf_links) :
       pdf_links[k].filename.stem \in
         { "document_" \o ToString(k),
           "document_" \o ToString(k) \o "_" \o pdf_links[k].size_kb \o "KB" }
  /\ \A a, b \in 1..Len(pdf_links) :
       a # b =>
         /\ Name(pdf_links[a].filename) # Name(pdf_links[b].filename)
         /\ PdfPath(pdf_links[a]) # PdfPath(pdf_links[b])
         /\ TxtPath(PdfPath(pdf_links[a])) # TxtPath(PdfPath(pdf_links[b]))

\* A list with two references from the primary pass, of the same size text,
\* followed by one from the secondary pass.
C13_Witness ==
  /\ Len(pdf_links) >= 3
  /\ pdf_links[1].size_kb = pdf_links[2].size_kb
  /\ pdf_links[1].text # "PDF"
  /\ pdf_links[2].text # "PDF"
  /\ pdf_links[3].text = "PDF"

\* C14: when the handler has returned after creating its temporary
\* directory, the directory has been removed.
C14_TempDirRemovedOnReturn ==
  (surface = "handler" /\ pc = "returned" /\ temp_dir # "none")
    => temp_dir = "removed"

\* The answers of job_status that found the job.
StatusSeen ==
  IF status_response # <<>> /\ status_response[1].statusCode = 200
  THEN {status_response[1].body}
  ELSE {}

\* C15: the job's progress is 0 in every state, its total_files is 0 until
\* scrape_case_page has returned, its processed_files is the number of
\* documents downloaded and saved so far, and a status request at any point
\* of the thread is answered with progress 0.
C15_ProgressStaysZero ==
  /\ job.progress = 0
  /\ job.processed_files = Len(SavedGets)
  /\ pc # "finished" => job.total_files = 0
  /\ pc = "finished" => job.total_files = Len(results.pdfs)
  /\ \A seen \in StatusSeen :
       /\ seen.progress = 0
       /\ seen.processed_files <= job.processed_files
       /\ seen.status # "completed" /\ seen.status # "error"
            => seen.total_files = 0

\* A status request made between two downloads was answered with one file
\* processed and progress 0, and the job then completed with two files.
C15_Witness ==
  /\ \E seen \in StatusSeen :
       /\ seen.status = "downloading"
       /\ seen.processed_files = 1
       /\ seen.progress = 0
  /\ pc = "finished"
  /\ job.status = "completed"
  /\ job.total_files = 2
  /\ job.progress = 0

====
